---- MODULE Spec2Model ----
(***************************************************************************)
(* A model of rakosh's NuggetCatalog (the content graph flattening and     *)
(* normalisation engine): heading rewriting, tree building from path rows, *)
(* chunk population, ordered and paged retrieval.                          *)
(*                                                                         *)
(* Markdown text is a non-empty sequence of lines (the text split at       *)
(* "\n"); a line is [h, text]: h > 0 is a line HEADING_RE matches (h       *)
(* hashes, whitespace, the non-empty text), h = 0 is any other line.       *)
(***************************************************************************)
EXTENDS Integers, Sequences, FiniteSets, TLC

VARIABLES
    pc,          \* position of the running operation
    markdown,    \* rewriteHeadings: the markdown argument
    depth,       \* rewriteHeadings: the depth argument
    result,      \* value returned (or error thrown) by the last operation
    db,          \* the graph collaborator: [docs, edges] of the mine
    cat,         \* the NuggetCatalog object's fields
    tree         \* getPaged: the TreeModel being collated and pruned

vars == <<pc, markdown, depth, result, db, cat, tree>>

-----------------------------------------------------------------------------
(* Bounds *)

MaxLines == 3      \* lines of a markdown fragment given to rewriteHeadings
MaxHashes == 7     \* hashes of an authored heading line
MaxDepth == 8      \* target depth handed to rewriteHeadings
MaxChunkDepth == 2 \* depth handed to getChunk
MaxMinLength == 4  \* the minlength option of the catalog
MaxChanges == 1    \* changes of the mine during the life of one catalog
MaxDocs == 2       \* documents a query of the extract command returns

-----------------------------------------------------------------------------
(* Evaluation *)

\* F applied to the value of x, with x evaluated once
With(x, F(_)) == CHOOSE y \in {F(v) : v \in {x}} : TRUE

-----------------------------------------------------------------------------
(* Strings as sequences of lines *)

Line(h, text) == [h |-> h, text |-> text]

EmptyLine == Line(0, "")

\* the empty string '' is one empty line
EmptyStr == <<EmptyLine>>

\* [a, b].join('\n')
JoinNl(a, b) == a \o b

\* `${'#'.repeat(n)} ${text}` : with n = 0 the line starts with a blank and
\* HEADING_RE does not match it
HashLine(n, text) == IF n > 0 THEN Line(n, text) ELSE Line(0, " " \o text)

\* String.length of one line
LineLength(l) == IF l.h > 0 THEN l.h + 1 + Len(l.text) ELSE Len(l.text)

RECURSIVE SumLen(_)
SumLen(s) == IF s = <<>> THEN 0 ELSE LineLength(Head(s)) + SumLen(Tail(s))

\* String.length: the lines and the newlines between them
StrLength(s) == SumLen(s) + (Len(s) - 1)

\* markdown.matchAll(HEADING_RE): the hash counts of the heading lines
RECURSIVE HeadingLevels(_)
HeadingLevels(s) ==
    IF s = <<>> THEN <<>>
    ELSE (IF Head(s).h > 0 THEN <<Head(s).h>> ELSE <<>>) \o HeadingLevels(Tail(s))

\* markdown.match(HEADING_RE)
HasHeading(s) == HeadingLevels(s) # <<>>

\* markdown.replace(HEADING_RE, ''): every heading line becomes an empty line
StripHeadings(s) == [i \in 1..Len(s) |-> IF s[i].h > 0 THEN EmptyLine ELSE s[i]]

-----------------------------------------------------------------------------
(* rewriteHeadings *)

MAX == 6

\* the last .map of newHeads: "make sure the level only increases by one at
\* a time"; `last` is assigned the level before the cap, not the returned one
RECURSIVE StepLimit(_, _)
StepLimit(levels, last) ==
    IF levels = <<>> THEN <<>>
    ELSE LET l == Head(levels)
             ret == IF l > last + 1 THEN last + 1 ELSE l
         IN  <<ret>> \o StepLimit(Tail(levels), l)

\* a mutant: newHeads without the map that raises levels below the depth
NewHeadsUnraised(depths, d) ==
    LET shifted == [i \in 1..Len(depths) |-> depths[i] - depths[1] + d]
        capped  == [i \in 1..Len(depths) |-> IF shifted[i] > MAX THEN MAX ELSE shifted[i]]
    IN  StepLimit(capped, d)

\* newHeads as numbers of hashes
NewHeads(depths, d) ==
    LET shifted == [i \in 1..Len(depths) |-> depths[i] - depths[1] + d]
        capped  == [i \in 1..Len(depths) |-> IF shifted[i] > MAX THEN MAX ELSE shifted[i]]
        raised  == [i \in 1..Len(depths) |-> IF capped[i] < d THEN d ELSE capped[i]]
    IN  StepLimit(raised, d)

\* markdown.replace(HEADING_RE, replacer): the idx-th match gets newHeads[idx]
RECURSIVE ReplaceHeadings(_, _)
ReplaceHeadings(s, heads) ==
    IF s = <<>> THEN <<>>
    ELSE IF Head(s).h > 0
         THEN <<HashLine(Head(heads), Head(s).text)>> \o ReplaceHeadings(Tail(s), Tail(heads))
         ELSE <<Head(s)>> \o ReplaceHeadings(Tail(s), heads)

rewriteHeadings(md, dep) ==
    LET d == IF dep > MAX THEN MAX ELSE dep
        depths == HeadingLevels(md)
    IN  IF depths # <<>> THEN ReplaceHeadings(md, NewHeads(depths, d)) ELSE md

-----------------------------------------------------------------------------
(* Nuggets: the documents of the mine as the catalog holds them *)

ADIT == "adit"

\* a nugget: key (_key), kind (the collection of _id, and with it the type),
\* hasBody / body, label, order (0: none), seam / nuggets (the grouped keys),
\* tag (the attribute the include and exclude options test)
Nugget(key, kind, hasBody, body, order, seam, nuggets, tag) ==
    [key |-> key, kind |-> kind, hasBody |-> hasBody, body |-> body,
     label |-> key, order |-> order, seam |-> seam, nuggets |-> nuggets, tag |-> tag]

\* what `...this.allNuggets.adit` spreads when the lookup has no adit: nothing
Undefined == Nugget("", "", FALSE, EmptyStr, 0, FALSE, <<>>, "")

\* a JS string used as a condition: '' and undefined are falsy
Truthy(hasIt, s) == hasIt /\ s # EmptyStr

\* nug._id.startsWith('passage')
IdIsPassage(nug) == nug.kind = "passage"

\* model.type
NuggetType(nug) == nug.kind

\* code-point rank of the labels and keys in use
Rank(str) == CASE str = "" -> 0 [] str = "a" -> 1 [] str = "adit" -> 2
               [] str = "b" -> 3 [] str = "c" -> 4 [] OTHER -> 5

\* Nugget.compare: ordered before unordered, then order, then label, then key
Compare(a, b) ==
    IF a.order # 0 /\ b.order # 0 /\ a.order # b.order THEN a.order < b.order
    ELSE IF (a.order # 0) # (b.order # 0) THEN a.order # 0
    ELSE IF a.label # b.label THEN Rank(a.label) < Rank(b.label)
    ELSE Rank(a.key) < Rank(b.key)

-----------------------------------------------------------------------------
(* TreeModel: a tree is a function from positions to node models; a        *)
(* position is the sequence of keys below the root, the root is <<>>       *)

TreeNode(dep, nug) == [depth |-> dep, chunks |-> <<>>, m |-> nug]

\* tree.parse({...}) of a single node
ParseRoot(model) == (<<>> :> model)

IsPrefix(p, q) == Len(p) <= Len(q) /\ SubSeq(q, 1, Len(p)) = p

Parent(q) == SubSeq(q, 1, Len(q) - 1)

ChildSet(t, p) == {q \in DOMAIN t : Len(q) = Len(p) + 1 /\ IsPrefix(p, q)}

\* node.hasChildren()
HasChildren(t, p) == ChildSet(t, p) # {}

\* sorted insertion of addChild under modelComparatorFn: node.children
RECURSIVE SortNodes(_, _)
SortNodes(t, S) ==
    IF S = {} THEN <<>>
    ELSE With(CHOOSE q \in S : \A r \in S \ {q} : Compare(t[q].m, t[r].m),
              LAMBDA least : <<least>> \o SortNodes(t, S \ {least}))

Children(t, p) == SortNodes(t, ChildSet(t, p))

\* the pre-order walk strategy: the node, then each child's subtree
RECURSIVE PreOrder(_, _)
RECURSIVE PreOrderAll(_, _)
PreOrder(t, p) == <<p>> \o PreOrderAll(t, Children(t, p))
PreOrderAll(t, ps) ==
    IF ps = <<>> THEN <<>> ELSE PreOrder(t, Head(ps)) \o PreOrderAll(t, Tail(ps))

\* node.first(n => n.model._key === key): the walk starts at the node itself;
\* <<>> when nothing matches, <<q>> for the first match q
First(t, p, key) ==
    LET walk == PreOrder(t, p)
        hits == {i \in 1..Len(walk) : t[walk[i]].m.key = key}
    IN  IF hits = {} THEN <<>>
        ELSE <<walk[CHOOSE i \in hits : \A j \in hits : i <= j]>>

\* node.drop(): the node and its subtree leave the tree; on the root a no-op
Drop(t, p) ==
    IF p = <<>> THEN t
    ELSE [q \in {r \in DOMAIN t : ~IsPrefix(p, r)} |-> t[q]]

RECURSIVE DropAll(_, _)
DropAll(t, ps) ==
    IF ps = <<>> THEN t
    ELSE With(Drop(t, Head(ps)), LAMBDA dropped : DropAll(dropped, Tail(ps)))

-----------------------------------------------------------------------------
(* The graph collaborator *)

\* the vertex passes every FILTER of the catalog
\* (v.tag == value for an include, v.tag != value for an exclude)
PassesFilters(doc, includes, excludes) ==
    /\ \A v \in includes : doc.tag = v
    /\ \A v \in excludes : doc.tag # v

Successors(edges, k) == {e[2] : e \in {f \in edges : f[1] = k}}

RECURSIVE SeqsOf(_)
\* every ordering of a finite set
SeqsOf(S) ==
    IF S = {} THEN {<<>>}
    ELSE UNION {{<<x>> \o rest : rest \in SeqsOf(S \ {x})} : x \in S}

\* OUTBOUND traversal from a path, depth first (the default order): the path,
\* then the traversal of each extension by an unused edge; the order in which
\* a vertex's edges are followed is the collaborator's choice
RECURSIVE Traversals(_, _)
RECURSIVE TraverseEach(_, _, _)
Traversals(edges, path) ==
    LET last == path[Len(path)]
        used == {<<path[i], path[i + 1]>> : i \in 1..(Len(path) - 1)}
        next == {k \in Successors(edges, last) : <<last, k>> \notin used}
    IN  UNION {{<<path>> \o rest : rest \in TraverseEach(edges, path, o)} : o \in SeqsOf(next)}
TraverseEach(edges, path, order) ==
    IF order = <<>> THEN {<<>>}
    ELSE {a \o b : a \in Traversals(edges, Append(path, Head(order))),
                   b \in TraverseEach(edges, path, Tail(order))}

RECURSIVE SelectRows(_, _, _, _)
SelectRows(rows, docs, includes, excludes) ==
    IF rows = <<>> THEN <<>>
    ELSE LET keys == Head(rows)
             keep == PassesFilters(docs[keys[Len(keys)]], includes, excludes)
         IN  (IF keep THEN <<keys>> ELSE <<>>)
                 \o SelectRows(Tail(rows), docs, includes, excludes)

\* the cursors the getTree query can return: the key paths p.vertices[*]._key
\* from the adit whose last vertex passes the filters
TreeCursors(d, includes, excludes) ==
    {SelectRows(rows, d.docs, includes, excludes) : rows \in Traversals(d.edges, <<ADIT>>)}

\* the vertices the init query returns (uniqueVertices: "global")
Reachable(d) ==
    UNION {{rows[i][Len(rows[i])] : i \in 1..Len(rows)} :
                rows \in Traversals(d.edges, <<ADIT>>)}

-----------------------------------------------------------------------------
(* getTree *)

Thrown(err) == [threw |-> TRUE, error |-> err, value |-> <<>>]
Returned(v) == [threw |-> FALSE, error |-> "", value |-> v]

\* one turn of the loop over the keys of a row; st is [ok, t, current, depth],
\* ok turning FALSE when assert.ok(nugget) fails
AddKey(all, st, key) ==
    With(First(st.t, st.current, key), LAMBDA node :
        IF node # <<>>
        THEN [st EXCEPT !.current = node[1], !.depth = @ + 1]
        ELSE IF key \notin DOMAIN all
             THEN [st EXCEPT !.ok = FALSE]
             ELSE [st EXCEPT !.t = Append(st.current, key) :> TreeNode(st.depth, all[key]) @@ @,
                             !.current = Append(@, key),
                             !.depth = @ + 1])

RECURSIVE AddKeys(_, _, _)
\* for (const key of c.keys.split('|'))
AddKeys(all, st, keys) ==
    IF keys = <<>> \/ ~st.ok THEN st
    ELSE With(AddKey(all, st, Head(keys)), LAMBDA next : AddKeys(all, next, Tail(keys)))

RECURSIVE AddRows(_, _, _)
\* for await (const c of cursor): each row starts at the root with depth 1
AddRows(all, st, rows) ==
    IF rows = <<>> \/ ~st.ok THEN st
    ELSE With(AddKeys(all, [st EXCEPT !.current = <<>>, !.depth = 1], Head(rows)),
              LAMBDA next : AddRows(all, next, Tail(rows)))

getTree(all, rows) ==
    LET root == ParseRoot(TreeNode(0, IF ADIT \in DOMAIN all THEN all[ADIT] ELSE Undefined))
    IN  With(AddRows(all, [ok |-> TRUE, t |-> root, current |-> <<>>, depth |-> 1], rows),
             LAMBDA st : IF st.ok THEN Returned(st.t) ELSE Thrown("AssertionError"))

-----------------------------------------------------------------------------
(* populateChunks *)

\* getMd: join('\n') writes an undefined body as the empty string
getMd(all, acc, key) ==
    IF key \notin DOMAIN all THEN acc
    ELSE JoinNl(acc, IF all[key].hasBody THEN all[key].body ELSE EmptyStr)

RECURSIVE ReduceGetMd(_, _, _)
\* seam.nuggets.reduce((acc, key) => this.getMd(acc, key), seamBody)
ReduceGetMd(all, keys, acc) ==
    IF keys = <<>> THEN acc
    ELSE ReduceGetMd(all, Tail(keys), getMd(all, acc, Head(keys)))

SeamChunk(all, key) == ReduceGetMd(all, all[key].nuggets, getMd(all, EmptyStr, key))

\* seamNuggetChunks after populateChunks() has passed initCheck
populateChunks(all, chunks) ==
    LET seams == {k \in DOMAIN all : all[k].seam}
        writtenNugs == seams \cup
            UNION {{all[k].nuggets[i] : i \in 1..Len(all[k].nuggets)} : k \in seams}
        bodies == {k \in DOMAIN all \ writtenNugs : Truthy(all[k].hasBody, all[k].body)}
    IN  [k \in seams |-> SeamChunk(all, k)] @@ [k \in bodies |-> all[k].body] @@ chunks

-----------------------------------------------------------------------------
(* #mdForExtract, #allowExtract, getChunk *)

None == [some |-> FALSE, md |-> EmptyStr]
Some(md) == [some |-> TRUE, md |-> md]

mdForExtract(c, key, dep) ==
    IF key \notin DOMAIN c.allNuggets THEN None
    ELSE LET nug == c.allNuggets[key]
             retMd ==
                 IF key \in DOMAIN c.seamNuggetChunks THEN Some(c.seamNuggetChunks[key])
                 ELSE IF IdIsPassage(nug)
                      THEN IF Truthy(nug.hasBody, nug.body) THEN Some(nug.body)
                           ELSE Some(<<HashLine(dep, nug.label), EmptyLine>>)
                      ELSE None
         IN  IF Truthy(retMd.some, retMd.md)
             THEN IF ~HasHeading(retMd.md)
                  THEN Some(<<HashLine(dep, nug.label), EmptyLine>> \o retMd.md)
                  ELSE retMd
             ELSE None

allowExtract(c, md) == StrLength(StripHeadings(md)) > c.minLength

getChunk(c, key, dep) ==
    LET md == mdForExtract(c, key, dep)
    IN  IF ~Truthy(md.some, md.md) THEN Returned(None)
        ELSE Returned(Some(rewriteHeadings(md.md, dep)))

-----------------------------------------------------------------------------
(* getOrdered *)

\* "empty passage leaf nodes are skipped"; reading _id of a model that has
\* none throws a TypeError
SkipsEmptyPassage(t, p) ==
    ~Truthy(t[p].m.hasBody, t[p].m.body) /\ ~HasChildren(t, p) /\ IdIsPassage(t[p].m)

ReadsMissingId(t, p) ==
    ~Truthy(t[p].m.hasBody, t[p].m.body) /\ ~HasChildren(t, p) /\ t[p].m.kind = ""

\* the chunk the walk pushes for the node at p, if any
OrderedChunk(c, t, p) ==
    LET md == mdForExtract(c, t[p].m.key, t[p].depth)
    IN  IF SkipsEmptyPassage(t, p) THEN None
        ELSE IF Truthy(md.some, md.md) /\ allowExtract(c, md.md)
             THEN Some(rewriteHeadings(md.md, t[p].depth))
             ELSE None

RECURSIVE OrderedChunks(_, _, _)
\* orderedChunks; each chunk is listed with the key of the node it was made for
OrderedChunks(c, t, walk) ==
    IF walk = <<>> THEN <<>>
    ELSE LET chunk == OrderedChunk(c, t, Head(walk))
         IN  (IF chunk.some THEN <<[key |-> t[Head(walk)].m.key, md |-> chunk.md]>> ELSE <<>>)
                 \o OrderedChunks(c, t, Tail(walk))

\* the walk of getOrdered over treeRoot
WalkOrdered(c, built) ==
    IF built.threw THEN built
    ELSE IF \E p \in DOMAIN built.value : ReadsMissingId(built.value, p)
         THEN Thrown("TypeError")
         ELSE Returned(OrderedChunks(c, built.value, PreOrder(built.value, <<>>)))

getOrdered(c, rows) == With(getTree(c.allNuggets, rows), LAMBDA built : WalkOrdered(c, built))

-----------------------------------------------------------------------------
(* getPaged *)

\* "skip empty leaf nodes": !node.hasChildren() && !('body' in node.model)
IsBodylessLeaf(t, p) == ~HasChildren(t, p) /\ ~t[p].m.hasBody

\* "walk to generate chunks": each node gets its own markdown, as it is
WalkChunks(c, t) ==
    [p \in DOMAIN t |->
        LET md == mdForExtract(c, t[p].m.key, t[p].depth)
        IN  IF ~IsBodylessLeaf(t, p) /\ Truthy(md.some, md.md) /\ allowExtract(c, md.md)
            THEN [t[p] EXCEPT !.chunks = Append(@, md.md)]
            ELSE t[p]]

\* toDrop, in walk order
ToDrop(t) == SelectSeq(PreOrder(t, <<>>), LAMBDA p : IsBodylessLeaf(t, p))

\* a mutant: the collation test without the condition on the parent's type
CollatesUnderAnyParent(t, p) ==
    /\ p # <<>>
    /\ ~t[Parent(p)].m.seam
    /\ NuggetType(t[p].m) = "nugget"
    /\ Len(t[p].chunks) > 0

\* the test of the collation walk at one node
Collates(t, p) ==
    /\ p # <<>>
    /\ NuggetType(t[Parent(p)].m) = "passage"
    /\ ~t[Parent(p)].m.seam
    /\ NuggetType(t[p].m) = "nugget"
    /\ Len(t[p].chunks) > 0

\* a mutant: the chunks are pushed to the parent and not cleared on the node
CollateNodeKeeping(t, p) ==
    IF Collates(t, p)
    THEN [t EXCEPT ![Parent(p)].chunks = @ \o t[p].chunks]
    ELSE t

\* the collation walk at one node: its chunks move up to the parent
CollateNode(t, p) ==
    IF Collates(t, p)
    THEN [t EXCEPT ![Parent(p)].chunks = @ \o t[p].chunks, ![p].chunks = <<>>]
    ELSE t

RECURSIVE Collate(_, _)
\* "collate nuggets up to their passage to make pages": the walk, node by node
Collate(t, walk) ==
    IF walk = <<>> THEN t
    ELSE With(CollateNode(t, Head(walk)), LAMBDA next : Collate(next, Tail(walk)))

\* the first walk and toDrop.forEach(d => d.drop())
WalkAndDrop(c, t) == With(WalkChunks(c, t), LAMBDA walked : DropAll(walked, ToDrop(t)))

\* getPaged up to the loop that removes empty leaf nodes
getPagedCollated(c, rows) ==
    With(getTree(c.allNuggets, rows), LAMBDA built :
        IF built.threw THEN built
        ELSE With(WalkAndDrop(c, built.value),
                  LAMBDA kept : Returned(Collate(kept, PreOrder(kept, <<>>)))))

\* a mutant: only leaves of type nugget count as empty leaves
EmptyNuggetLeaves(t) ==
    SelectSeq(PreOrder(t, <<>>),
              LAMBDA p : ~HasChildren(t, p) /\ Len(t[p].chunks) = 0
                            /\ NuggetType(t[p].m) = "nugget")

\* treeRoot.all(n => !n.hasChildren() && n.model.chunks.length === 0)
EmptyLeaves(t) ==
    SelectSeq(PreOrder(t, <<>>), LAMBDA p : ~HasChildren(t, p) /\ Len(t[p].chunks) = 0)

\* one round of the do-while loop: emptyLeaves.forEach(n => n.drop())
PruneOnce(t) == DropAll(t, EmptyLeaves(t))

-----------------------------------------------------------------------------
(* Specification of rewriteHeadings on bounded inputs *)

Texts == {"t"}

Lines == {Line(0, "")} \cup {Line(h, t) : h \in 0..MaxHashes, t \in Texts}

Fragments == UNION {[1..n -> Lines] : n \in 1..MaxLines}

RewriteInit ==
    /\ pc = "rewrite"
    /\ markdown \in Fragments
    /\ depth \in 0..MaxDepth
    /\ result = <<>>
    /\ db = <<>>
    /\ cat = <<>>
    /\ tree = <<>>

RewriteHeadings ==
    /\ pc = "rewrite"
    /\ result' = rewriteHeadings(markdown, depth)
    /\ pc' = "rewritten"
    /\ UNCHANGED <<markdown, depth, db, cat, tree>>

RewriteNext == RewriteHeadings

SpecRewrite == RewriteInit /\ [][RewriteNext]_vars

-----------------------------------------------------------------------------
(* Specification of getTree on an initialised catalog over bounded mines *)

NodeKeys == {"a", "b", "c"}

Keys == {ADIT} \cup NodeKeys

Tags == {"x", "y"}

\* the edges a mine may have: out of the adit, and between the other vertices
MineEdges == {<<ADIT, "a">>, <<ADIT, "b">>, <<ADIT, "c">>,
              <<"a", "b">>, <<"a", "c">>, <<"b", "c">>}

Catalog(initialised, all, chunks, includes, excludes, minLength) ==
    [initialised |-> initialised, allNuggets |-> all, seamNuggetChunks |-> chunks,
     includes |-> includes, excludes |-> excludes, minLength |-> minLength]

\* the lookup init() fills: every vertex the traversal from the adit returns
Loaded(d) == [k \in Reachable(d) |-> d.docs[k]]

PlainPassage(key, tag) == Nugget(key, "passage", FALSE, EmptyStr, 0, FALSE, <<>>, tag)

TreeInit ==
    /\ pc = "getTree"
    /\ \E edges \in SUBSET MineEdges, tags \in [Keys -> Tags] :
          db = [docs |-> [k \in Keys |-> PlainPassage(k, tags[k])], edges |-> edges]
    /\ \E inc \in SUBSET {"x"}, exc \in SUBSET {"y"} :
          cat = Catalog(TRUE, Loaded(db), <<>>, inc, exc, 0)
    /\ markdown = <<>>
    /\ depth = 0
    /\ result = <<>>
    /\ tree = <<>>

GetTree ==
    /\ pc = "getTree"
    /\ \E rows \in TreeCursors(db, cat.includes, cat.excludes) :
          /\ result' = getTree(cat.allNuggets, rows)
          /\ tree' = result'.value
    /\ pc' = "built"
    /\ UNCHANGED <<markdown, depth, db, cat>>

TreeNext == GetTree

SpecTree == TreeInit /\ [][TreeNext]_vars

-----------------------------------------------------------------------------
(* Specification of one catalog over a bounded mine: construction, then    *)
(* init() and populateChunks() in any order and number, then one retrieval *)
(* operation. A retrieval operation writes no field of the catalog, so the *)
(* run ends with its result (pc = "returned").                             *)

ChunkDepths == 1..MaxChunkDepth

\* the shapes of document in a mine
Profiles == {"passage", "passage+body", "nugget", "nugget+heading", "nugget-body"}

Doc(key, profile, nuggets) ==
    LET seam == nuggets # <<>>
    IN  CASE profile = "passage" ->
                Nugget(key, "passage", FALSE, EmptyStr, 0, seam, nuggets, "x")
          [] profile = "passage+body" ->
                Nugget(key, "passage", TRUE, <<Line(1, key), Line(0, "p.")>>,
                       0, seam, nuggets, "x")
          [] profile = "nugget" ->
                Nugget(key, "nugget", TRUE, <<Line(0, key \o ".")>>, 0, seam, nuggets, "x")
          [] profile = "nugget+heading" ->
                Nugget(key, "nugget", TRUE, <<Line(2, key), Line(0, key \o "..")>>,
                       0, seam, nuggets, "x")
          [] profile = "nugget-body" ->
                Nugget(key, "nugget", FALSE, EmptyStr, 0, seam, nuggets, "x")

Mines == {{}, {<<ADIT, "a">>, <<"a", "b">>},
          {<<ADIT, "a">>, <<ADIT, "b">>, <<"b", "c">>}}

\* the grouped keys of the seam "a", when it is one
Groupings == {<<>>, <<"b", "c">>}

MinLengths == 0..MaxMinLength

Outcome(op, r) ==
    [op |-> op, initialised |-> cat.initialised, threw |-> r.threw,
     error |-> r.error, value |-> r.value]

Init ==
    /\ pc = "idle"
    /\ \E edges \in Mines, prof \in [Keys -> Profiles], grouped \in Groupings :
          /\ prof[ADIT] \in {"passage", "passage+body"}
          /\ prof["a"] \in {"passage", "passage+body", "nugget"}
          /\ prof["c"] = "nugget"
          /\ db = [docs |-> [k \in Keys |->
                                Doc(k, prof[k], IF k = "a" THEN grouped ELSE <<>>)],
                   edges |-> edges, changes |-> 0]
    /\ \E minLength \in MinLengths : cat = Catalog(FALSE, <<>>, <<>>, {}, {}, minLength)
    /\ markdown = <<>>
    /\ depth = 0
    /\ result = <<>>
    /\ tree = <<>>

\* the mine is edited between two calls of the catalog: db.query answers
\* from the graph as it is when the query runs (a catalog that has not run
\* init() has read nothing: an edit before it is another initial mine)
ChangeMine ==
    /\ pc = "idle"
    /\ cat.initialised
    /\ db.changes < MaxChanges
    /\ \E edges \in Mines \ {db.edges} :
          db' = [db EXCEPT !.edges = edges, !.changes = @ + 1]
    /\ UNCHANGED <<pc, markdown, depth, result, cat, tree>>

\* init()
CallInit ==
    /\ pc = "idle"
    /\ cat' = [cat EXCEPT !.allNuggets = Loaded(db) @@ @, !.initialised = TRUE]
    /\ result' = Outcome("init", Returned(<<>>))
    /\ UNCHANGED <<pc, markdown, depth, db, tree>>

\* initCheck()
InitCheckThrows == ~cat.initialised

IllegalState == Thrown("must call init() first")

\* populateChunks()
PopulateChunks ==
    /\ pc = "idle"
    /\ IF InitCheckThrows
       THEN /\ result' = Outcome("populateChunks", IllegalState)
            /\ UNCHANGED cat
       ELSE /\ cat' = [cat EXCEPT !.seamNuggetChunks = populateChunks(cat.allNuggets, @)]
            /\ result' = Outcome("populateChunks", Returned(<<>>))
    /\ UNCHANGED <<pc, markdown, depth, db, tree>>

\* getChunk(key, depth)
GetChunk ==
    /\ pc = "idle"
    /\ \E key \in Keys, dep \in ChunkDepths :
          result' = [key |-> key, depth |-> dep] @@ Outcome("getChunk", getChunk(cat, key, dep))
    /\ pc' = "returned"
    /\ UNCHANGED <<markdown, depth, db, cat, tree>>

\* getOrdered(); tree keeps treeRoot, the tree the chunks were walked from
BeginOrdered(op, c) ==
    \E rows \in TreeCursors(db, c.includes, c.excludes) :
        \E built \in {getTree(c.allNuggets, rows)} :
            /\ tree' = built.value
            /\ result' = Outcome(op, WalkOrdered(c, built))

GetOrdered ==
    /\ pc = "idle"
    /\ BeginOrdered("getOrdered", cat)
    /\ pc' = "returned"
    /\ UNCHANGED <<markdown, depth, db, cat>>

\* getSeamNuggetMarkdown(): populateChunks(), then getOrdered()
GetSeamNuggetMarkdown ==
    /\ pc = "idle"
    /\ IF InitCheckThrows
       THEN /\ result' = Outcome("getSeamNuggetMarkdown", IllegalState)
            /\ UNCHANGED <<cat, tree>>
       ELSE /\ cat' = [cat EXCEPT !.seamNuggetChunks = populateChunks(cat.allNuggets, @)]
            /\ BeginOrdered("getSeamNuggetMarkdown", cat')
    /\ pc' = "returned"
    /\ UNCHANGED <<markdown, depth, db>>

\* getPaged() up to the do-while loop: the tree is built, walked and collated
BeginPaged(op, c) ==
    \E rows \in TreeCursors(db, c.includes, c.excludes) :
        \E r \in {getPagedCollated(c, rows)} :
            IF r.threw
            THEN /\ result' = Outcome(op, r)
                 /\ pc' = "returned"
                 /\ UNCHANGED tree
            ELSE /\ pc' = "prune"
                 /\ tree' = r.value
                 /\ result' = [op |-> op, initialised |-> cat.initialised]

GetPaged ==
    /\ pc = "idle"
    /\ BeginPaged("getPaged", cat)
    /\ UNCHANGED <<markdown, depth, db, cat>>

\* getSeamNuggetTree(): populateChunks(), then getPaged()
GetSeamNuggetTree ==
    /\ pc = "idle"
    /\ IF InitCheckThrows
       THEN /\ result' = Outcome("getSeamNuggetTree", IllegalState)
            /\ pc' = "returned"
            /\ UNCHANGED <<cat, tree>>
       ELSE /\ cat' = [cat EXCEPT !.seamNuggetChunks = populateChunks(cat.allNuggets, @)]
            /\ BeginPaged("getSeamNuggetTree", cat')
    /\ UNCHANGED <<markdown, depth, db>>

\* one round of "remove empty leaf nodes": do { ... } while (len)
PruneRound ==
    /\ pc = "prune"
    /\ Len(EmptyLeaves(tree)) > 0
    /\ tree' = PruneOnce(tree)
    /\ UNCHANGED <<pc, markdown, depth, result, db, cat>>

\* the round that finds no empty leaf ends the loop: return treeRoot
ReturnPaged ==
    /\ pc = "prune"
    /\ Len(EmptyLeaves(tree)) = 0
    /\ pc' = "returned"
    /\ result' = [op |-> result.op, initialised |-> result.initialised,
                  threw |-> FALSE, error |-> "", value |-> tree]
    /\ UNCHANGED <<markdown, depth, db, cat, tree>>

Next ==
    \/ ChangeMine
    \/ CallInit
    \/ PopulateChunks
    \/ GetChunk
    \/ GetOrdered
    \/ GetSeamNuggetMarkdown
    \/ GetPaged
    \/ GetSeamNuggetTree
    \/ PruneRound
    \/ ReturnPaged

Spec == Init /\ [][Next]_vars

-----------------------------------------------------------------------------
(* extractNuggets: the breadcrumbs of every nugget of the stash *)

\* _id: the collection and the key
IdOf(doc) == doc.kind \o "/" \o doc.key

ReverseSeq(seq) == [i \in 1..Len(seq) |-> seq[Len(seq) + 1 - i]]

\* the edges followed INBOUND
Inbound(edges) == {<<e[2], e[1]>> : e \in edges}

\* the rows of the breadcrumbs query: the INBOUND traversals from the vertex,
\* depth 1 and more, whose last vertex is the adit; each row is p.vertices
\* reversed, a vertex reduced to _id, label and _key
CrumbRow(docs, path) ==
    ReverseSeq([i \in 1..Len(path) |->
        [id |-> IdOf(docs[path[i]]), label |-> docs[path[i]].label, key |-> path[i]]])

CrumbCursors(d, key) ==
    {[i \in 1..Len(found) |-> CrumbRow(d.docs, found[i])] :
        found \in {SelectSeq(rows, LAMBDA path : Len(path) > 1 /\ path[Len(path)] = ADIT) :
                      rows \in Traversals(Inbound(d.edges), <<key>>)}}

\* a mutant: the filter keeps the vertex itself
CrumbWithSelf(c, id) ==
    LET kept == SelectSeq(c, LAMBDA b : b.id # "passage/adit")
    IN  [i \in 1..Len(kept) |-> [label |-> kept[i].label, key |-> kept[i].key]]

\* c.filter(b => b._id !== 'passage/adit' && b._id !== _id).map(({ _id, ...rest }) => rest)
Crumb(c, id) ==
    LET kept == SelectSeq(c, LAMBDA b : b.id # "passage/adit" /\ b.id # id)
    IN  [i \in 1..Len(kept) |-> [label |-> kept[i].label, key |-> kept[i].key]]

RECURSIVE Breadcrumbs(_, _)
\* for await (const c of cursor): non-zero length paths are pushed
Breadcrumbs(cursor, id) ==
    IF cursor = <<>> THEN <<>>
    ELSE With(Crumb(Head(cursor), id), LAMBDA crumb :
             (IF Len(crumb) > 0 THEN <<crumb>> ELSE <<>>) \o Breadcrumbs(Tail(cursor), id))

\* the edges of a mine with a cycle among its vertices
CrumbEdges == MineEdges \cup {<<"c", "a">>}

\* the stash holds every document of the passage and nugget collections
CrumbDoc(key) ==
    IF key \in {ADIT, "a"} THEN PlainPassage(key, "x")
    ELSE Nugget(key, "nugget", TRUE, <<Line(0, key \o ".")>>, 0, FALSE, <<>>, "x")

\* cat is nuggetStash: the breadcrumbs set so far, by key
CrumbsInit ==
    /\ pc = "breadcrumbs"
    /\ \E edges \in SUBSET CrumbEdges :
          db = [docs |-> [k \in Keys |-> CrumbDoc(k)], edges |-> edges]
    /\ cat = <<>>
    /\ markdown = <<>>
    /\ depth = 0
    /\ result = <<>>
    /\ tree = <<>>

\* one turn of the loop over Object.entries(nuggetStash), passages first;
\* result keeps the turn's _id, cursor and breadcrumbs
SetBreadcrumbs ==
    /\ pc = "breadcrumbs"
    /\ \E key \in Keys \ DOMAIN cat :
          /\ \A k \in Keys \ DOMAIN cat :
                IdIsPassage(db.docs[key]) \/ ~IdIsPassage(db.docs[k])
          /\ \E cursor \in CrumbCursors(db, key) :
                \E crumbs \in {Breadcrumbs(cursor, IdOf(db.docs[key]))} :
                    /\ cat' = (key :> crumbs) @@ cat
                    /\ result' = [id |-> IdOf(db.docs[key]), key |-> key,
                                  cursor |-> cursor, breadcrumbs |-> crumbs]
    /\ UNCHANGED <<pc, markdown, depth, db, tree>>

CrumbsNext == SetBreadcrumbs

SpecCrumbs == CrumbsInit /\ [][CrumbsNext]_vars

-----------------------------------------------------------------------------
(* The command handlers of extract and pdf: one thread of control, async   *)
(* functions that run until their next await, promises nobody awaits.      *)
(* pc is the handler's position; cat holds the started asynchronous calls  *)
(* (writeNugs for passages, writeNugs for nuggets, generatePdf), db the    *)
(* numbers of documents the two queries return; result what became of the  *)
(* handler and of the errors.                                              *)

\* an async call: not started, running, done or failed; left counts the
\* items its cursor has not yet yielded
Idle == [state |-> "idle", left |-> 0]
Running(n) == [state |-> "running", left |-> n]

Commands == {"extract", "pdf"}

HandlerInit ==
    /\ pc = "exists"
    /\ \E cmd \in Commands, passages \in 0..MaxDocs, nuggets \in 0..MaxDocs :
          db = [command |-> cmd, passages |-> passages, nuggets |-> nuggets]
    /\ cat = [passages |-> Idle, nuggets |-> Idle, pdf |-> Idle]
    /\ result = [caught |-> FALSE, escaped |-> FALSE]
    /\ markdown = <<>>
    /\ depth = 0
    /\ tree = <<>>

\* await db.exists() returns: a missing mine throws into the catch block;
\* extract goes on to copyTemplates and the first query of extractNuggets,
\* pdf calls generatePdf(db, argv), does not await it, and returns
DbExists ==
    /\ pc = "exists"
    /\ \/ /\ pc' = "exited"
          /\ result' = [result EXCEPT !.caught = TRUE]
          /\ UNCHANGED cat
       \/ /\ db.command = "extract"
          /\ pc' = "queryPassages"
          /\ UNCHANGED <<cat, result>>
       \/ /\ db.command = "pdf"
          /\ cat' = [cat EXCEPT !.pdf = Running(1)]
          /\ pc' = "finished"
          /\ UNCHANGED result
    /\ UNCHANGED <<markdown, depth, db, tree>>

\* the passages query returns: writeNugs(cursor) is called and runs up to its
\* first await; its promise is dropped; the nuggets query is issued
PassagesQueried ==
    /\ pc = "queryPassages"
    /\ cat' = [cat EXCEPT !.passages = Running(db.passages)]
    /\ pc' = "queryNuggets"
    /\ UNCHANGED <<markdown, depth, result, db, tree>>

\* the nuggets query returns: return writeNugs(cursor), which the handler awaits
NuggetsQueried ==
    /\ pc = "queryNuggets"
    /\ cat' = [cat EXCEPT !.nuggets = Running(db.nuggets)]
    /\ pc' = "awaitNuggets"
    /\ UNCHANGED <<markdown, depth, result, db, tree>>

\* a turn of `for await (const nugget of cursor)` in the running call `name`
\* (or a step of generatePdf): the cursor yields an item and writeFileSync
\* writes it or throws, or the cursor is exhausted and the call returns. An
\* error in the awaited call reaches the handler's catch block (process.exit);
\* an error in a call nobody awaits is an unhandled rejection
CallStep(name) ==
    /\ pc # "exited"
    /\ \/ /\ cat[name].left > 0
          /\ cat' = [cat EXCEPT ![name].left = @ - 1]
          /\ UNCHANGED <<pc, result>>
       \/ /\ cat[name].left > 0
          /\ cat' = [cat EXCEPT ![name].state = "failed"]
          /\ IF name = "nuggets"
             THEN pc' = "exited" /\ result' = [result EXCEPT !.caught = TRUE]
             ELSE pc' = pc /\ result' = [result EXCEPT !.escaped = TRUE]
       \/ /\ cat[name].left = 0
          /\ cat' = [cat EXCEPT ![name].state = "done"]
          /\ UNCHANGED <<pc, result>>
    /\ UNCHANGED <<markdown, depth, db, tree>>

WriteNugsPassages ==
    /\ cat.passages.state = "running"
    /\ CallStep("passages")

WriteNugsNuggets ==
    /\ cat.nuggets.state = "running"
    /\ CallStep("nuggets")

GeneratePdf ==
    /\ cat.pdf.state = "running"
    /\ CallStep("pdf")

\* await extractNuggets(...) resumes: extractSeams issues its query
NuggetsExtracted ==
    /\ pc = "awaitNuggets"
    /\ cat.nuggets.state = "done"
    /\ pc' = "querySeams"
    /\ UNCHANGED <<markdown, depth, result, db, cat, tree>>

\* extractSeams, generateMineMap and buildSite have run: the handler returns
SiteGenerated ==
    /\ pc = "querySeams"
    /\ pc' = "finished"
    /\ UNCHANGED <<markdown, depth, result, db, cat, tree>>

HandlerNext ==
    \/ DbExists
    \/ PassagesQueried
    \/ NuggetsQueried
    \/ WriteNugsPassages
    \/ WriteNugsNuggets
    \/ GeneratePdf
    \/ NuggetsExtracted
    \/ SiteGenerated

SpecHandler == HandlerInit /\ [][HandlerNext]_vars

-----------------------------------------------------------------------------
(* FsLayout: the tree built from a directory. db is the directory: dirs    *)
(* (the paths of its sub-directories, below the scanned one), files (the   *)
(* directories that hold a nugget file f.md), passages (the directories    *)
(* whose parent holds a passage file naming them), adit (adit.md exists).  *)
(* A node of the tree is named by the path of its file or directory.       *)

\* the sub-directories a scanned directory may have
DirPaths == {<<"d">>, <<"e">>, <<"d", "d">>, <<"d", "e">>, <<"e", "d">>}

SubDirs(fs, dir) == {p \in fs.dirs : Len(p) = Len(dir) + 1 /\ IsPrefix(dir, p)}

\* a node parsed with the given depth
FsNode(dep, type) == [depth |-> dep, type |-> type]

RECURSIVE BuildTrees(_, _, _)
RECURSIVE BuildDirs(_, _, _)
\* #buildTree(parent, dir, depth): the nodes added below parent, one result
\* for each order in which readdirSync may list the directories. The files
\* come first, every one with nugget.depth = depth; a passage file's node
\* becomes the node of its directory
BuildTrees(fs, dir, dep) ==
    LET dirs == SubDirs(fs, dir)
        mdFiles == IF dir \in fs.files
                   THEN (Append(dir, "f") :> FsNode(dep, "nugget")) ELSE <<>>
        passageNuggets == [p \in dirs \cap fs.passages |-> FsNode(dep, "passage")]
    IN  {mdFiles @@ passageNuggets @@ below :
            below \in UNION {BuildDirs(fs, order, dep) : order \in SeqsOf(dirs)}}

\* for (const d of dirs): a directory without a passage file gets a node
\* parsed with the current depth; the recursion is given depth++, that is
\* the current depth, and the next directory sees the depth raised by one
BuildDirs(fs, order, dep) ==
    IF order = <<>> THEN {<<>>}
    ELSE LET d == Head(order)
             passageNode == IF d \in fs.passages THEN <<>>
                            ELSE (d :> FsNode(dep, "passage"))
         IN  {passageNode @@ inside @@ rest :
                 inside \in BuildTrees(fs, d, dep),
                 rest \in BuildDirs(fs, Tail(order), dep + 1)}

\* init(): this.root = this.tree.parse({}); adit.md, when the directory has
\* one, gives the root its document with depth 0
FsRoot(fs) == IF fs.adit THEN FsNode(0, "passage") ELSE [type |-> "none"]

LayoutInit ==
    /\ pc = "new"
    /\ \E dirs \in SUBSET DirPaths :
          /\ \A p \in dirs : Len(p) > 1 => Parent(p) \in dirs
          /\ \E files \in SUBSET (dirs \cup {<<>>}), passages \in SUBSET dirs, adit \in BOOLEAN :
                db = [dirs |-> dirs, files |-> files, passages |-> passages, adit |-> adit]
    /\ cat = <<>>
    /\ markdown = <<>>
    /\ depth = 0
    /\ result = <<>>
    /\ tree = <<>>

\* new FsLayout(dir): init() builds the tree from depth 1
NewFsLayout ==
    /\ pc = "new"
    /\ \E built \in BuildTrees(db, <<>>, 1) : tree' = (<<>> :> FsRoot(db)) @@ built
    /\ pc' = "built"
    /\ UNCHANGED <<markdown, depth, result, db, cat>>

LayoutNext == NewFsLayout

SpecLayout == LayoutInit /\ [][LayoutNext]_vars

-----------------------------------------------------------------------------
(* C1 *)

RisesByAtMostOne(levels) ==
    \A i \in 1..(Len(levels) - 1) : levels[i + 1] <= levels[i] + 1

\* C1: in the output of rewriteHeadings the final heading levels, read in
\* order, never rise by more than 1 from one heading to the next.
\* (target depths are 1-based in the contract; depth 0 is left out here)
HeadingLevelsRiseByAtMostOne ==
    (pc = "rewritten" /\ depth >= 1) => RisesByAtMostOne(HeadingLevels(result))

-----------------------------------------------------------------------------
(* C2 *)

\* C2: after getTree() has folded the path rows the tree holds exactly one
\* node per distinct key, also when a key is reached through different parents.
OneNodePerKey ==
    (pc = "built" /\ ~result.threw) =>
        \A p, q \in DOMAIN tree : tree[p].m.key = tree[q].m.key => p = q

-----------------------------------------------------------------------------
(* C3 *)

\* C3: in the tree built by getTree() the root has depth 0 and every other
\* node's depth is its parent's depth + 1.
DepthIsParentDepthPlusOne ==
    (pc = "built" /\ ~result.threw) =>
        /\ tree[<<>>].depth = 0
        /\ \A p \in DOMAIN tree \ {<<>>} : tree[p].depth = tree[Parent(p)].depth + 1

-----------------------------------------------------------------------------
(* C7 *)

\* C7: with include/exclude predicates active, every node other than the
\* root that getTree() materializes matches all include predicates and none
\* of the exclude predicates, the inner nodes of a path included.
TreeNodesPassFilters ==
    (pc = "built" /\ ~result.threw) =>
        \A p \in DOMAIN tree \ {<<>>} :
            PassesFilters(tree[p].m, cat.includes, cat.excludes)

-----------------------------------------------------------------------------
(* C4 *)

\* C4: getPaged() terminates: the loop that removes empty leaves reaches a
\* round in which no empty leaf remains. A round that finds an empty leaf and
\* leaves the tree as it was is followed by the same round for ever, so each
\* round that has to run must remove a node.
PruneRoundRemovesANode ==
    (pc = "prune" /\ EmptyLeaves(tree) # <<>>) => PruneOnce(tree) # tree

-----------------------------------------------------------------------------
(* C5 *)

PagedReturned ==
    /\ pc = "returned"
    /\ result.op \in {"getPaged", "getSeamNuggetTree"}
    /\ ~result.threw

HoldsChunkBelow(t, p) ==
    \E q \in DOMAIN t : q # p /\ IsPrefix(p, q) /\ Len(t[q].chunks) > 0

\* C5: in the tree getPaged() returns no leaf has an empty chunks list,
\* pruning it once more removes nothing, and a node with an empty chunks list
\* is kept only if a descendant of it holds a chunk.
ReturnedTreeIsPruned ==
    PagedReturned =>
        /\ \A p \in DOMAIN result.value :
              ~HasChildren(result.value, p) => Len(result.value[p].chunks) > 0
        /\ PruneOnce(result.value) = result.value
        /\ \A p \in DOMAIN result.value :
              Len(result.value[p].chunks) = 0 => HoldsChunkBelow(result.value, p)

TreeKeys(t) == {t[p].m.key : p \in DOMAIN t}

\* a returned tree from which the loop removed a node that has a body, and
\* which keeps a node without chunks above a node with one
PrunedTreeReturned ==
    /\ PagedReturned
    /\ \E k \in DOMAIN cat.allNuggets :
          cat.allNuggets[k].hasBody /\ k \notin TreeKeys(result.value)
    /\ \E p \in DOMAIN result.value :
          Len(result.value[p].chunks) = 0 /\ HoldsChunkBelow(result.value, p)

-----------------------------------------------------------------------------
(* C6 *)

\* C6: every retrieval operation invoked before init() has completed fails
\* with the illegal-state error and returns nothing.
RetrievalBeforeInitFails ==
    (pc = "returned" /\ ~result.initialised) =>
        (result.threw /\ result.error = IllegalState.error)

-----------------------------------------------------------------------------
(* C8 *)

GroupedKeys(all) ==
    UNION {{all[k].nuggets[i] : i \in 1..Len(all[k].nuggets)} :
             k \in {s \in DOMAIN all : all[s].seam}}

\* C8: after populateChunks() no key of a composite's groupedKeys has a chunk
\* of its own, and getOrdered() emits no standalone chunk for it.
GroupedKeysAreNotEmitted ==
    (pc = "returned" /\ result.op = "getSeamNuggetMarkdown" /\ ~result.threw) =>
        \A k \in GroupedKeys(cat.allNuggets) :
            /\ k \notin DOMAIN cat.seamNuggetChunks
            /\ \A i \in 1..Len(result.value) : result.value[i].key # k

-----------------------------------------------------------------------------
(* C9 *)

RECURSIVE JoinBodies(_, _)
\* the bodies of the keys the lookup holds, in order, joined by newlines
JoinBodies(all, keys) ==
    IF keys = <<>> THEN <<>>
    ELSE (IF Head(keys) \in DOMAIN all THEN all[Head(keys)].body ELSE <<>>)
             \o JoinBodies(all, Tail(keys))

\* the composite and every grouped node the lookup holds have a body
AllHaveBodies(all, keys) ==
    \A i \in 1..Len(keys) : keys[i] \in DOMAIN all => all[keys[i]].hasBody

\* C9: the chunk populateChunks() records under a composite's key is its own
\* body followed by the body of each grouped node in groupedKeys order, joined
\* by single newlines, nothing before its own body; a grouped key the lookup
\* does not hold adds nothing. (Stated for composites whose nodes have bodies.)
SeamChunkIsBodiesJoined ==
    (result # <<>> /\ result.op = "populateChunks" /\ ~result.threw) =>
        \A s \in {k \in DOMAIN cat.allNuggets : cat.allNuggets[k].seam} :
            AllHaveBodies(cat.allNuggets, <<s>> \o cat.allNuggets[s].nuggets) =>
                cat.seamNuggetChunks[s] =
                    JoinBodies(cat.allNuggets, <<s>> \o cat.allNuggets[s].nuggets)

-----------------------------------------------------------------------------
(* C10 *)

\* C10: getOrdered() omits a node that has exportable markdown exactly when
\* the length of that markdown with the heading lines stripped is below the
\* minimum length (a childless passage without a body is never exported).
OmittedIffBelowMinLength ==
    (pc = "returned" /\ result.op = "getOrdered" /\ ~result.threw) =>
        \A p \in DOMAIN tree :
            LET md == mdForExtract(cat, tree[p].m.key, tree[p].depth)
                emitted == \E i \in 1..Len(result.value) : result.value[i].key = tree[p].m.key
            IN  (md.some /\ ~SkipsEmptyPassage(tree, p)) =>
                    (emitted <=> StrLength(StripHeadings(md.md)) >= cat.minLength)

-----------------------------------------------------------------------------
(* C11 *)

Min(a, b) == IF a < b THEN a ELSE b

\* C11: for a fragment with at least one heading and a target depth d >= 1,
\* every final heading level rewriteHeadings writes lies between min(d, 6)
\* and 6, and the first heading's final level is min(d, 6); every heading
\* line stays a heading line.
FinalLevelsWithinDepthAndMax ==
    (pc = "rewritten" /\ depth >= 1 /\ HasHeading(markdown)) =>
        LET levels == HeadingLevels(result)
        IN  /\ Len(levels) = Len(HeadingLevels(markdown))
            /\ \A i \in 1..Len(levels) : Min(depth, 6) <= levels[i] /\ levels[i] <= 6
            /\ levels[1] = Min(depth, 6)

\* a fragment whose second heading is authored above the first and is raised
\* to the target depth, and whose third is authored far below and is capped
RaisedAndCappedRewritten ==
    /\ pc = "rewritten"
    /\ depth = 5
    /\ HeadingLevels(markdown) = <<3, 1, 7>>
    /\ HeadingLevels(result) = <<5, 5, 6>>

-----------------------------------------------------------------------------
(* C12 *)

\* the operations built on getTree()
TreeOps == {"getOrdered", "getPaged", "getSeamNuggetMarkdown", "getSeamNuggetTree"}

\* C12: when a path row holds a key the node-data lookup lacks (the mine has
\* gained a vertex since init()), getTree() aborts with a ReferenceError and
\* getOrdered() and getPaged() return no tree and no partial result.
MissingKeyThrowsReferenceError ==
    (/\ pc = "returned"
     /\ result.op \in TreeOps
     /\ result.initialised
     /\ ~(Reachable(db) \subseteq DOMAIN cat.allNuggets)) =>
        (result.threw /\ result.error = "ReferenceError" /\ result.value = <<>>)

-----------------------------------------------------------------------------
(* C13 *)

\* C13: after any init() the node-data lookup holds exactly the nodes that
\* call's traversal returned, and no chunk of a node it did not return is
\* still held to be served.
InitStartsAFreshLookup ==
    [][CallInit => (/\ DOMAIN cat'.allNuggets = Reachable(db)
                    /\ DOMAIN cat'.seamNuggetChunks \subseteq Reachable(db))]_vars

-----------------------------------------------------------------------------
(* C14 *)

\* the keys of the prefixes two different rows share
SharedPrefixKeys(rows) ==
    {rows[i][n] : <<i, j, n>> \in
        {x \in (1..Len(rows)) \X (1..Len(rows)) \X (1..Cardinality(Keys)) :
            /\ x[1] # x[2]
            /\ x[3] <= Len(rows[x[1]])
            /\ x[3] <= Len(rows[x[2]])
            /\ SubSeq(rows[x[1]], 1, x[3]) = SubSeq(rows[x[2]], 1, x[3])}}

NodesWithKey(t, k) == {p \in DOMAIN t : t[p].m.key = k}

\* C14: for any two path rows that share a prefix of keys the tree built by
\* getTree() holds exactly one node for each key of the shared prefix, and no
\* node has two children with the same key.
SharedPrefixHasOneNodePerKey ==
    (pc = "built" /\ ~result.threw) =>
        /\ \A rows \in TreeCursors(db, cat.includes, cat.excludes) :
              getTree(cat.allNuggets, rows) = result =>
                  \A k \in SharedPrefixKeys(rows) : Cardinality(NodesWithKey(tree, k)) = 1
        /\ \A p \in DOMAIN tree : \A q, r \in ChildSet(tree, p) :
              tree[q].m.key = tree[r].m.key => q = r

-----------------------------------------------------------------------------
(* C15 *)

\* before the collation pass: a nugget that holds a chunk under a passage
\* without grouped keys
FoldsUp(t, p) ==
    /\ p # <<>>
    /\ t[p].m.kind = "nugget"
    /\ Len(t[p].chunks) > 0
    /\ t[Parent(p)].m.kind = "passage"
    /\ t[Parent(p)].m.nuggets = <<>>

RECURSIVE FoldedChunks(_, _)
\* the chunks of the children that fold up, in sibling order
FoldedChunks(t, children) ==
    IF children = <<>> THEN <<>>
    ELSE (IF FoldsUp(t, Head(children)) THEN t[Head(children)].chunks ELSE <<>>)
             \o FoldedChunks(t, Tail(children))

\* what the claim says of the pass that takes the tree `before` to `after`
CollatedAsClaimed(before, after) ==
    /\ DOMAIN after = DOMAIN before
    /\ \A p \in DOMAIN before :
          /\ after[p].m = before[p].m
          /\ after[p].chunks =
                IF FoldsUp(before, p) THEN <<>>
                ELSE before[p].chunks \o FoldedChunks(before, Children(before, p))

-----------------------------------------------------------------------------
(* C18 *)

RECURSIVE CountChunks(_, _)
\* the number of chunks on the nodes of a walk
CountChunks(t, walk) ==
    IF walk = <<>> THEN 0 ELSE Len(t[Head(walk)].chunks) + CountChunks(t, Tail(walk))

InSeq(x, seq) == \E i \in 1..Len(seq) : seq[i] = x

RECURSIVE PrunesTo(_, _)
\* rounds of the loop that removes empty leaves take t to final
PrunesTo(t, final) ==
    \/ t = final
    \/ /\ EmptyLeaves(t) # <<>>
       /\ PruneOnce(t) # t
       /\ PrunesTo(PruneOnce(t), final)

\* what the claim says of the tree after the first walk and the returned one
ChunksPreserved(walked, final) ==
    /\ DOMAIN final \subseteq DOMAIN walked
    /\ CountChunks(final, PreOrder(final, <<>>)) = CountChunks(walked, PreOrder(walked, <<>>))
    /\ \A p \in DOMAIN walked : \A i \in 1..Len(walked[p].chunks) :
          \/ p \in DOMAIN final /\ InSeq(walked[p].chunks[i], final[p].chunks)
          \/ /\ p # <<>>
             /\ Parent(p) \in DOMAIN final
             /\ InSeq(walked[p].chunks[i], final[Parent(p)].chunks)
    /\ \A p \in DOMAIN walked \ DOMAIN final : \A q \in DOMAIN walked :
          (IsPrefix(p, q) /\ q # p) => walked[q].chunks = <<>>
    /\ \A p \in DOMAIN final :
          final[p].chunks # <<>> => \A q \in DOMAIN walked : IsPrefix(q, p) => q \in DOMAIN final

\* C18: getPaged() neither loses nor duplicates chunks: every chunk the first
\* walk attached to a node is exactly once in the returned tree, on that node
\* or on its parent, and no node that holds a chunk, and no ancestor of one,
\* is dropped.
PagedKeepsEveryChunkOnce ==
    PagedReturned =>
        \A rows \in TreeCursors(db, cat.includes, cat.excludes) :
            \A built \in {getTree(cat.allNuggets, rows)} :
                ~built.threw =>
                    \A walked \in {WalkChunks(cat, built.value)} :
                        \A kept \in {DropAll(walked, ToDrop(built.value))} :
                            PrunesTo(Collate(kept, PreOrder(kept, <<>>)), result.value) =>
                                ChunksPreserved(walked, result.value)

\* a returned tree in which a passage holds a chunk folded up from a nugget,
\* the emptied nugget has been removed, and another node keeps its own chunk
FoldedAndPrunedTreeReturned ==
    /\ PagedReturned
    /\ result.initialised
    /\ \E p \in DOMAIN result.value :
          /\ Len(result.value[p].chunks) >= 2
          /\ \E k \in Successors(db.edges, result.value[p].m.key) :
                /\ k \in DOMAIN cat.allNuggets
                /\ cat.allNuggets[k].hasBody
                /\ k \notin TreeKeys(result.value)
    /\ \E q \in DOMAIN result.value :
          q # <<>> /\ result.value[q].m.kind = "nugget" /\ Len(result.value[q].chunks) = 1

-----------------------------------------------------------------------------
(* C16 *)

\* the keys of a row (root first) without its first and its last vertex
InnerKeys(row) == [i \in 1..(Len(row) - 2) |-> row[i + 1].key]

\* the inner vertices of a row that are neither the root nor the target
Intermediate(row, key) == SelectSeq(InnerKeys(row), LAMBDA k : k # ADIT /\ k # key)

\* C16: for every path from the root to the node that the collaborator
\* returns, the resolver yields one trail listing the path's intermediate
\* nodes root first, each as key and label only; no trail holds the root or
\* the node itself, and a path without intermediate nodes yields no trail.
OneTrailPerPathRootFirst ==
    (pc = "breadcrumbs" /\ result # <<>>) =>
        LET paths == SelectSeq(result.cursor,
                               LAMBDA row : Intermediate(row, result.key) # <<>>)
            trails == result.breadcrumbs
        IN  /\ Len(trails) = Len(paths)
            /\ cat[result.key] = trails
            /\ \A i \in 1..Len(trails) :
                  /\ Len(trails[i]) > 0
                  /\ [j \in 1..Len(trails[i]) |-> trails[i][j].key]
                        = Intermediate(paths[i], result.key)
                  /\ \A j \in 1..Len(trails[i]) :
                        /\ DOMAIN trails[i][j] = {"key", "label"}
                        /\ trails[i][j].label = db.docs[trails[i][j].key].label
                        /\ trails[i][j].key \notin {ADIT, result.key}

\* a node with two trails of different lengths, reached also by a path from
\* the root with no vertex between them
TwoTrailsAndADirectPath ==
    /\ pc = "breadcrumbs"
    /\ result # <<>>
    /\ result.key = "c"
    /\ <<"c", "a">> \notin db.edges
    /\ Len(result.breadcrumbs) >= 2
    /\ \E i, j \in 1..Len(result.breadcrumbs) :
          Len(result.breadcrumbs[i]) = 1 /\ Len(result.breadcrumbs[j]) = 2
    /\ \E i \in 1..Len(result.cursor) : Len(result.cursor[i]) = 2

-----------------------------------------------------------------------------
(* C17 *)

\* C17: within one invocation the asynchronous steps run strictly one after
\* another: no query is issued and no later step starts while the loop over
\* an earlier query's result is still running, the handler does not finish
\* before the work it started has completed, and no error of that work
\* escapes the handler's error handling.
StepsRunOneAfterAnother ==
    /\ pc \in {"queryNuggets", "awaitNuggets", "querySeams"} =>
          cat.passages.state # "running"
    /\ pc = "querySeams" => cat.nuggets.state # "running"
    /\ pc = "finished" => \A n \in DOMAIN cat : cat[n].state # "running"
    /\ ~result.escaped

-----------------------------------------------------------------------------
(* C19 *)

\* C19: in the tree FsLayout builds from a directory with an adit the root
\* has depth 0 and every other node's depth is its nesting level: 1 directly
\* in the scanned directory, the depth of the directory's passage node + 1
\* inside a directory, whatever the number of sibling directories before it.
FsDepthIsNestingLevel ==
    (pc = "built" /\ db.adit) =>
        /\ tree[<<>>].depth = 0
        /\ \A p \in DOMAIN tree \ {<<>>} :
              /\ tree[p].depth = Len(p)
              /\ tree[p].depth = tree[Parent(p)].depth + 1

====
